---- MODULE Spec2Model ----
(***************************************************************************)
(* Model of crates/sui-core/src/checkpoints/checkpoint_output.rs:          *)
(*   - SendCheckpointToStateSync / ForwardToStateSyncTask, connected by a  *)
(*     bounded tokio mpsc channel;                                         *)
(*   - SubmitCheckpointToConsensus, delegating to LogCheckpointOutput.     *)
(* The channel follows tokio::sync::mpsc: a bounded channel with a fair    *)
(* (FIFO) permit semaphore; send fails once the receiver is dropped, recv  *)
(* yields None once every sender is dropped and the buffer is drained.     *)
(***************************************************************************)
EXTENDS Naturals, Sequences, FiniteSets, TLC

\* ---------------------------------------------------------------- bounds
\* Channel capacity; mpsc::channel(128) in the source, scaled down.
Capacity == 2
\* Number of tasks that may call certified_checkpoint_created concurrently.
NumCallers == 2
\* Total number of certified_checkpoint_created calls in a behaviour.
MaxCalls == 3
\* Total number of SubmitCheckpointToConsensus.checkpoint_created calls.
MaxSubmits == 2
\* Total number of calls made on LogCheckpointOutput.
MaxLogCalls == 2

Callers == 1..NumCallers
CallIds == 1..MaxCalls
\* Checkpoint sequence numbers handed to the sinks.
SeqNums == {7, 9}

\* ------------------------------------------------------------ data model
\* CheckpointSummary: sequence number, previous digest and content digest.
PreviousDigests == {"D0"}
ContentDigests == {"D1"}
CheckpointSummary ==
    [sequence_number : SeqNums, previous_digest : PreviousDigests,
     content_digest : ContentDigests]

\* CheckpointContents: the ordered transactions of a checkpoint.
CheckpointContents == {<<"tx1">>, <<"tx1", "tx2", "tx3">>}

\* contents.size()
size(contents) == Len(contents)

\* Validator identities and the signing keys a sink may be configured with.
AuthorityName == {"V1", "V2"}
AuthoritySigner == {"K1", "K2"}

\* SuiResult values the submit_to_consensus capability may return.
SuiErrors == {"ErrA", "ErrB"}
SuiResult == {"Ok"} \cup SuiErrors

\* CertifiedCheckpointSummary: a summary with the aggregated quorum signature.
CertifiedCheckpointSummary == [summary : CheckpointSummary, auth_signature : {"quorum"}]

\* summary.digest(): digest of the summary's canonical encoding.
digest(summary) ==
    <<"digest", summary.sequence_number, summary.previous_digest, summary.content_digest>>

\* Hex::encode
HexEncode(d) == <<"hex", d>>

\* VerifiedCheckpoint::new_unchecked(checkpoint)
new_unchecked(checkpoint) == [verified |-> TRUE, inner |-> checkpoint]

\* summary.to_owned(): a clone of the certificate.
to_owned(summary) == [summary |-> summary.summary, auth_signature |-> summary.auth_signature]

\* info!("Certified checkpoint with sequence {} and digest {}", ...)
CertifiedInfoRecord(summary) ==
    [level |-> "info", event |-> "certified_checkpoint",
     sequence_number |-> summary.summary.sequence_number,
     digest |-> HexEncode(digest(summary.summary))]

\* error!("unable to send checkpoint to state-sync: {e}")
SendErrorRecord(e) == [level |-> "error", event |-> "unable_to_send", error |-> e]

\* A call that has not returned.
NoReturn == [result |-> "none"]

\* signer.sign(bytes): the signature of a key over the summary.
sign(signer, summary) == <<"sig", signer, digest(summary)>>

new_from_summary_signer_as_identity(summary, authority, signer) ==
    [summary |-> summary,
     auth_signature |-> [authority |-> signer, signature |-> sign(signer, summary)]]

\* SignedCheckpointSummary::new_from_summary(summary, authority, signer)
new_from_summary(summary, authority, signer) ==
    [summary |-> summary,
     auth_signature |-> [authority |-> authority, signature |-> sign(signer, summary)]]

\* CheckpointSignatureMessage { summary }
CheckpointSignatureMessage(signed) == [summary |-> signed]

\* ConsensusTransaction::new_checkpoint_signature_message(message)
new_checkpoint_signature_message(message) ==
    [tracking_id |-> <<"hash", message.summary.auth_signature.signature>>,
     kind |-> [variant |-> "CheckpointSignature", payload |-> <<message>>]]

BuildTransaction_foreign_identity(summary, authority, signer) ==
    new_checkpoint_signature_message(
        CheckpointSignatureMessage(
            new_from_summary(summary, CHOOSE a \in AuthorityName : a # authority, signer)))

\* The transaction checkpoint_created builds for a summary.
BuildTransaction(summary, authority, signer) ==
    new_checkpoint_signature_message(
        CheckpointSignatureMessage(new_from_summary(summary, authority, signer)))

\* debug!("Including following transactions in checkpoint {}: {:?}", ...)
TransactionsDebugRecord(summary, contents) ==
    [level |-> "debug", event |-> "including_transactions",
     sequence_number |-> summary.sequence_number, contents |-> contents]

\* info!("Creating checkpoint {:?} at sequence {}, ...")
CreatingInfoRecord(summary, contents, last_checkpoint_of_epoch) ==
    [level |-> "info", event |-> "creating_checkpoint",
     digest |-> HexEncode(digest(summary)),
     sequence_number |-> summary.sequence_number,
     previous_digest |-> summary.previous_digest,
     transactions_count |-> size(contents),
     content_digest |-> HexEncode(summary.content_digest),
     last_checkpoint_of_epoch |-> last_checkpoint_of_epoch]

LogCheckpointOutput_checkpoint_created_info_only(summary, contents, last_checkpoint_of_epoch) ==
    [records |-> << CreatingInfoRecord(summary, contents, last_checkpoint_of_epoch) >>,
     result |-> "Ok"]

\* LogCheckpointOutput::checkpoint_created: the records it emits, in order,
\* and the value it returns.
LogCheckpointOutput_checkpoint_created(summary, contents, last_checkpoint_of_epoch) ==
    [records |-> << TransactionsDebugRecord(summary, contents),
                    CreatingInfoRecord(summary, contents, last_checkpoint_of_epoch) >>,
     result |-> "Ok"]

\* info!("Certified checkpoint with sequence {} and digest {}", ...) of the
\* logging sink.
LogCertifiedInfoRecord(summary) ==
    [level |-> "info", event |-> "certified_checkpoint",
     sequence_number |-> summary.summary.sequence_number,
     digest |-> HexEncode(digest(summary.summary))]

\* LogCheckpointOutput::certified_checkpoint_created: the record it emits and
\* the value it returns.
LogCheckpointOutput_certified_checkpoint_created(summary) ==
    [records |-> << LogCertifiedInfoRecord(summary) >>, result |-> "Ok"]

\* The submit_to_consensus invocation, as an event of the call's trace.
SubmitEvent(transaction) == [event |-> "submit_to_consensus", transaction |-> transaction]

NoArgs == [summary |-> "none"]

VARIABLES
    senderAlive,   \* the SendCheckpointToStateSync object (the only Sender) exists
    queueState,    \* "Open" | "Closed": the channel's sender-side state seen by recv
    task,          \* ForwardToStateSyncTask: "created" | "dropped" | "recv" | "delivering" | "done"
    buffer,        \* messages buffered in the channel, each [call, cert]
    waiters,       \* FIFO of callers waiting for a permit
    pc,            \* per caller: "idle" | "info" | "send" | "waiting" | "granted"
    callId,        \* per caller: index of the call in progress (0: none)
    callLog,       \* per caller: log records emitted so far by the call in progress
    suspended,     \* per caller: the send of the call in progress had to wait
    passed,        \* history: certificates in invocation order
    returns,       \* history, per call: [result, sendRes, log, suspended] once returned
    overlap,       \* history: some call was invoked while another was in progress
    sent,          \* history: call ids whose send succeeded, in enqueue order
    ingested,      \* history: send_checkpoint invocations, each [call, checkpoint]
    preStart,      \* history: call ids buffered at the moment the task was started
    atClose,       \* history: call ids buffered at the moment the sender was dropped
    completed      \* history: number of send_checkpoint calls that have completed

VARIABLES
    authority,     \* SubmitCheckpointToConsensus.authority
    signer,        \* SubmitCheckpointToConsensus.signer
    cpc,           \* checkpoint_created: "idle" | "log" | "submit" | "submitting"
    cargs,         \* [summary, contents, last_checkpoint_of_epoch] of the call
    ctrace,        \* log records and submit invocations of the call, in order
    cresult,       \* value returned by the call
    ccalls,        \* history: arguments of the calls, in invocation order
    submitted,     \* history: submit_to_consensus invocations, each [call, transaction]
    outcomes       \* history: what submit_to_consensus returned, each [call, result]

VARIABLES
    logCalls,      \* history: calls made on LogCheckpointOutput, each [op, args]
    logTrace,      \* log records emitted by LogCheckpointOutput, in order
    logReturns     \* history: the value each LogCheckpointOutput call returned

logVars == <<logCalls, logTrace, logReturns>>

consVars == <<authority, signer, cpc, cargs, ctrace, cresult, ccalls, submitted, outcomes>>

syncVars == <<senderAlive, queueState, task, buffer, waiters, pc, callId, callLog,
              suspended, passed, returns, overlap, sent, ingested, preStart, atClose,
              completed>>

vars == <<syncVars, consVars, logVars>>

\* The Receiver has been dropped: the task object was dropped unstarted, or
\* the spawned future finished.
ReceiverDropped == task \in {"dropped", "done"}

TaskStarted == task \in {"recv", "delivering", "done"}

\* Permits handed to woken waiters that have not pushed their message yet.
GrantedPermits == Cardinality({p \in Callers : pc[p] = "granted"})

\* Permits available in the semaphore.
AvailablePermits_ignoring_buffer == Capacity - GrantedPermits

AvailablePermits_off_by_one == (Capacity + 1) - Len(buffer) - GrantedPermits

AvailablePermits == Capacity - Len(buffer) - GrantedPermits

\* The value certified_checkpoint_created returns, given send's outcome.
ReturnValue_propagating(sendOutcome) == IF sendOutcome = "Ok" THEN "Ok" ELSE "Err"

ReturnValue(sendOutcome) == "Ok"

\* Records emitted after send completed with the given outcome.
RecordsAfterSend(sendOutcome) ==
    IF sendOutcome = "Ok" THEN <<>> ELSE <<SendErrorRecord("channel closed")>>

\* The certificate of the call a caller is executing.
Arg(p) == passed[callId[p]]

SyncInit ==
    /\ senderAlive = TRUE
    /\ queueState = "Open"
    /\ task = "created"
    /\ buffer = <<>>
    /\ waiters = <<>>
    /\ pc = [p \in Callers |-> "idle"]
    /\ callId = [p \in Callers |-> 0]
    /\ callLog = [p \in Callers |-> <<>>]
    /\ suspended = [p \in Callers |-> FALSE]
    /\ passed = <<>>
    /\ returns = [k \in CallIds |-> NoReturn]
    /\ overlap = FALSE
    /\ sent = <<>>
    /\ ingested = <<>>
    /\ preStart = {}
    /\ atClose = <<>>
    /\ completed = 0

\* ------------------------------------------- SendCheckpointToStateSync
\* A caller invokes certified_checkpoint_created(&self, summary).
Invoke(p, c) ==
    /\ senderAlive
    /\ pc[p] = "idle"
    /\ Len(passed) < MaxCalls
    /\ pc' = [pc EXCEPT ![p] = "info"]
    /\ callId' = [callId EXCEPT ![p] = Len(passed) + 1]
    /\ passed' = Append(passed, c)
    /\ overlap' = (overlap \/ \E q \in Callers \ {p} : pc[q] # "idle")
    /\ UNCHANGED <<senderAlive, queueState, task, buffer, waiters, callLog, suspended,
                   returns, sent, ingested, preStart, atClose, completed>>
    /\ UNCHANGED <<consVars, logVars>>

LogInfo_after_send(p) ==
    /\ pc[p] = "info"
    /\ callLog' = callLog
    /\ pc' = [pc EXCEPT ![p] = "send"]
    /\ UNCHANGED <<senderAlive, queueState, task, buffer, waiters, callId, suspended,
                   passed, returns, overlap, sent, ingested, preStart, atClose, completed>>
    /\ UNCHANGED <<consVars, logVars>>

\* The info! record at the top of certified_checkpoint_created.
LogInfo(p) ==
    /\ pc[p] = "info"
    /\ callLog' = [callLog EXCEPT ![p] = Append(@, CertifiedInfoRecord(Arg(p)))]
    /\ pc' = [pc EXCEPT ![p] = "send"]
    /\ UNCHANGED <<senderAlive, queueState, task, buffer, waiters, callId, suspended,
                   passed, returns, overlap, sent, ingested, preStart, atClose, completed>>
    /\ UNCHANGED <<consVars, logVars>>

\* send completed with the given outcome: log the failure if any, return.
Complete(p, sendOutcome) ==
    /\ returns' = [returns EXCEPT ![callId[p]] =
                      [result |-> ReturnValue(sendOutcome),
                       sendRes |-> sendOutcome,
                       log |-> callLog[p] \o RecordsAfterSend(sendOutcome),
                       suspended |-> suspended[p]]]
    /\ pc' = [pc EXCEPT ![p] = "idle"]
    /\ callId' = [callId EXCEPT ![p] = 0]
    /\ callLog' = [callLog EXCEPT ![p] = <<>>]
    /\ suspended' = [suspended EXCEPT ![p] = FALSE]

Push_to_front(p) ==
    /\ buffer' = <<[call |-> callId[p], cert |-> to_owned(Arg(p))]>> \o buffer
    /\ sent' = Append(sent, callId[p])

\* The message is pushed onto the channel.
Push(p) ==
    /\ buffer' = Append(buffer, [call |-> callId[p], cert |-> to_owned(Arg(p))])
    /\ sent' = Append(sent, callId[p])

\* First poll of self.sender.send(summary.to_owned()).await
SendPoll(p) ==
    /\ pc[p] = "send"
    /\ IF ReceiverDropped
       THEN /\ Complete(p, "Closed")
            /\ UNCHANGED <<buffer, sent, waiters>>
       ELSE IF AvailablePermits > 0
       THEN /\ Push(p)
            /\ Complete(p, "Ok")
            /\ UNCHANGED waiters
       ELSE /\ waiters' = Append(waiters, p)
            /\ pc' = [pc EXCEPT ![p] = "waiting"]
            /\ suspended' = [suspended EXCEPT ![p] = TRUE]
            /\ UNCHANGED <<buffer, sent, callId, callLog, returns>>
    /\ UNCHANGED <<senderAlive, queueState, task, passed, overlap, ingested,
                   preStart, atClose, completed>>
    /\ UNCHANGED <<consVars, logVars>>

SendResume_without_close_wake(p) ==
    /\ pc[p] = "granted"
    /\ ~ReceiverDropped
    /\ Push(p)
    /\ Complete(p, "Ok")
    /\ UNCHANGED <<senderAlive, queueState, task, waiters, passed, overlap, ingested,
                   preStart, atClose, completed>>
    /\ UNCHANGED <<consVars, logVars>>

\* A suspended send is polled again after being woken: either it was handed
\* a permit, or the receiver was dropped.
SendResume(p) ==
    /\ \/ /\ pc[p] = "granted"
          /\ ~ReceiverDropped
          /\ Push(p)
          /\ Complete(p, "Ok")
       \/ /\ pc[p] \in {"waiting", "granted"}
          /\ ReceiverDropped
          /\ Complete(p, "Closed")
          /\ UNCHANGED <<buffer, sent>>
    /\ UNCHANGED <<senderAlive, queueState, task, waiters, passed, overlap, ingested,
                   preStart, atClose, completed>>
    /\ UNCHANGED <<consVars, logVars>>

DropSender_leaving_open ==
    /\ senderAlive
    /\ \A p \in Callers : pc[p] = "idle"
    /\ senderAlive' = FALSE
    /\ atClose' = [i \in 1..Len(buffer) |-> buffer[i].call]
    /\ UNCHANGED <<queueState, task, buffer, waiters, pc, callId, callLog, suspended,
                   passed, returns, overlap, sent, ingested, preStart, completed>>
    /\ UNCHANGED <<consVars, logVars>>

\* The owner drops the SendCheckpointToStateSync object; no call borrows it.
DropSender ==
    /\ senderAlive
    /\ \A p \in Callers : pc[p] = "idle"
    /\ senderAlive' = FALSE
    /\ queueState' = "Closed"
    /\ atClose' = [i \in 1..Len(buffer) |-> buffer[i].call]
    /\ UNCHANGED <<task, buffer, waiters, pc, callId, callLog, suspended,
                   passed, returns, overlap, sent, ingested, preStart, completed>>
    /\ UNCHANGED <<consVars, logVars>>

\* ------------------------------------------------ ForwardToStateSyncTask
\* start(self, handle): tokio::spawn of the forwarding loop.
Start ==
    /\ task = "created"
    /\ task' = "recv"
    /\ preStart' = {buffer[i].call : i \in 1..Len(buffer)}
    /\ UNCHANGED <<senderAlive, queueState, buffer, waiters, pc, callId, callLog,
                   suspended, passed, returns, overlap, sent, ingested, atClose, completed>>
    /\ UNCHANGED <<consVars, logVars>>

\* The task object is dropped without being started: the Receiver is
\* dropped, buffered messages are discarded, waiting senders are woken.
DropTask ==
    /\ task = "created"
    /\ task' = "dropped"
    /\ buffer' = <<>>
    /\ waiters' = <<>>
    /\ UNCHANGED <<senderAlive, queueState, pc, callId, callLog, suspended,
                   passed, returns, overlap, sent, ingested, preStart, atClose, completed>>
    /\ UNCHANGED <<consVars, logVars>>

\* The message recv hands to the loop body.
NextMessage_lifo(buf) == buf[Len(buf)]

NextMessage(buf) == Head(buf)

\* What remains buffered after the message was taken.
Remaining_keeping_head(buf) == buf

Remaining_dedup(buf) == SelectSeq(Tail(buf), LAMBDA m : m.cert # Head(buf).cert)

Remaining(buf) == Tail(buf)

Recv_pipelined ==
    /\ task \in {"recv", "delivering"}
    /\ buffer # <<>>
    /\ LET m == NextMessage(buffer) IN
         ingested' = Append(ingested, [call |-> m.call, checkpoint |-> new_unchecked(m.cert)])
    /\ buffer' = Remaining(buffer)
    /\ task' = "delivering"
    /\ IF waiters # <<>>
       THEN /\ pc' = [pc EXCEPT ![Head(waiters)] = "granted"]
            /\ waiters' = Tail(waiters)
       ELSE UNCHANGED <<pc, waiters>>
    /\ UNCHANGED <<senderAlive, queueState, callId, callLog, suspended,
                   passed, returns, overlap, sent, preStart, atClose, completed>>
    /\ UNCHANGED <<consVars, logVars>>

\* self.receiver.recv().await yields Some(checkpoint); the loop body calls
\* handle.send_checkpoint(VerifiedCheckpoint::new_unchecked(checkpoint)).
\* The freed permit goes to the longest-waiting sender, if any.
Recv ==
    /\ task = "recv"
    /\ buffer # <<>>
    /\ LET m == NextMessage(buffer) IN
         ingested' = Append(ingested, [call |-> m.call, checkpoint |-> new_unchecked(m.cert)])
    /\ buffer' = Remaining(buffer)
    /\ task' = "delivering"
    /\ IF waiters # <<>>
       THEN /\ pc' = [pc EXCEPT ![Head(waiters)] = "granted"]
            /\ waiters' = Tail(waiters)
       ELSE UNCHANGED <<pc, waiters>>
    /\ UNCHANGED <<senderAlive, queueState, callId, callLog, suspended,
                   passed, returns, overlap, sent, preStart, atClose, completed>>
    /\ UNCHANGED <<consVars, logVars>>

\* handle.send_checkpoint(..).await completes; the loop polls recv again.
SendCheckpointReturn ==
    /\ task = "delivering"
    /\ task' = "recv"
    /\ completed' = completed + 1
    /\ UNCHANGED <<senderAlive, queueState, buffer, waiters, pc, callId, callLog,
                   suspended, passed, returns, overlap, sent, ingested, preStart, atClose>>
    /\ UNCHANGED <<consVars, logVars>>

RecvNone_on_empty ==
    /\ task = "recv"
    /\ buffer = <<>>
    /\ task' = "done"
    /\ UNCHANGED <<senderAlive, queueState, buffer, waiters, pc, callId, callLog,
                   suspended, passed, returns, overlap, sent, ingested, preStart, atClose, completed>>
    /\ UNCHANGED <<consVars, logVars>>

RecvNone_without_drain ==
    /\ task = "recv"
    /\ queueState = "Closed"
    /\ task' = "done"
    /\ UNCHANGED <<senderAlive, queueState, buffer, waiters, pc, callId, callLog,
                   suspended, passed, returns, overlap, sent, ingested, preStart, atClose, completed>>
    /\ UNCHANGED <<consVars, logVars>>

\* recv yields None: the channel is closed and drained; the loop ends and
\* the spawned future, with its Receiver, is dropped.
RecvNone ==
    /\ task = "recv"
    /\ buffer = <<>>
    /\ queueState = "Closed"
    /\ task' = "done"
    /\ UNCHANGED <<senderAlive, queueState, buffer, waiters, pc, callId, callLog,
                   suspended, passed, returns, overlap, sent, ingested, preStart, atClose, completed>>
    /\ UNCHANGED <<consVars, logVars>>

\* ------------------------------------------ SubmitCheckpointToConsensus
ConsInit ==
    /\ authority \in AuthorityName
    /\ signer \in AuthoritySigner
    /\ cpc = "idle"
    /\ cargs = NoArgs
    /\ ctrace = <<>>
    /\ cresult = "none"
    /\ ccalls = <<>>
    /\ submitted = <<>>
    /\ outcomes = <<>>

CheckpointCreated_without_log(summary, contents, last_checkpoint_of_epoch) ==
    /\ cpc = "idle"
    /\ Len(ccalls) < MaxSubmits
    /\ cargs' = [summary |-> summary, contents |-> contents,
                 last_checkpoint_of_epoch |-> last_checkpoint_of_epoch]
    /\ ccalls' = Append(ccalls, cargs')
    /\ ctrace' = <<>>
    /\ cresult' = "none"
    /\ cpc' = "submit"
    /\ UNCHANGED <<authority, signer, submitted, outcomes>>
    /\ UNCHANGED <<syncVars, logVars>>

\* The checkpoint builder invokes checkpoint_created(&self, summary, contents, flag).
CheckpointCreated(summary, contents, last_checkpoint_of_epoch) ==
    /\ cpc = "idle"
    /\ Len(ccalls) < MaxSubmits
    /\ cargs' = [summary |-> summary, contents |-> contents,
                 last_checkpoint_of_epoch |-> last_checkpoint_of_epoch]
    /\ ccalls' = Append(ccalls, cargs')
    /\ ctrace' = <<>>
    /\ cresult' = "none"
    /\ cpc' = "log"
    /\ UNCHANGED <<authority, signer, submitted, outcomes>>
    /\ UNCHANGED <<syncVars, logVars>>

\* LogCheckpointOutput.checkpoint_created(summary, contents, flag).await?
LogDelegate ==
    /\ cpc = "log"
    /\ LET r == LogCheckpointOutput_checkpoint_created(
                     cargs.summary, cargs.contents, cargs.last_checkpoint_of_epoch) IN
         /\ ctrace' = ctrace \o r.records
         /\ IF r.result = "Ok"
            THEN /\ cpc' = "submit"
                 /\ UNCHANGED cresult
            ELSE /\ cpc' = "idle"
                 /\ cresult' = r.result
    /\ UNCHANGED <<authority, signer, cargs, ccalls, submitted, outcomes>>
    /\ UNCHANGED <<syncVars, logVars>>

AugmentForEpochChange_changing_summary(summary, last_checkpoint_of_epoch) ==
    IF last_checkpoint_of_epoch
    THEN [summary EXCEPT !.content_digest = <<"change_epoch", @>>]
    ELSE summary

\* if last_checkpoint_of_epoch { /* empty */ }: what is signed afterwards.
AugmentForEpochChange(summary, last_checkpoint_of_epoch) == summary

\* The (empty) epoch hook, signing, wrapping, and the invocation of
\* self.sender.submit_to_consensus(&transaction).
SubmitBegin ==
    /\ cpc = "submit"
    /\ LET transaction == BuildTransaction(
                               AugmentForEpochChange(cargs.summary,
                                                     cargs.last_checkpoint_of_epoch),
                               authority, signer) IN
         /\ ctrace' = Append(ctrace, SubmitEvent(transaction))
         /\ submitted' = Append(submitted, [call |-> Len(ccalls), transaction |-> transaction])
    /\ cpc' = "submitting"
    /\ UNCHANGED <<authority, signer, cargs, cresult, ccalls, outcomes>>
    /\ UNCHANGED <<syncVars, logVars>>

CallResult_swallowing(submitResult) == "Ok"

\* The value checkpoint_created returns, given what submit_to_consensus returned.
CallResult(submitResult) == submitResult

SubmitReturn_with_timeout(r) ==
    /\ cpc = "submitting"
    /\ cresult' = r
    /\ cpc' = "idle"
    /\ UNCHANGED <<authority, signer, cargs, ctrace, ccalls, submitted, outcomes>>
    /\ UNCHANGED <<syncVars, logVars>>

\* submit_to_consensus(..).await completes with r; the call returns it.
SubmitReturn(r) ==
    /\ cpc = "submitting"
    /\ outcomes' = Append(outcomes, [call |-> Len(ccalls), result |-> r])
    /\ cresult' = CallResult(r)
    /\ cpc' = "idle"
    /\ UNCHANGED <<authority, signer, cargs, ctrace, ccalls, submitted>>
    /\ UNCHANGED <<syncVars, logVars>>

LogInit ==
    /\ logCalls = <<>>
    /\ logTrace = <<>>
    /\ logReturns = <<>>

\* LogCheckpointOutput.checkpoint_created(summary, contents, flag): the body
\* has no await, the call runs to its return in one poll.
LogCheckpointCreated(summary, contents, last_checkpoint_of_epoch) ==
    /\ Len(logCalls) < MaxLogCalls
    /\ LET r == LogCheckpointOutput_checkpoint_created(
                     summary, contents, last_checkpoint_of_epoch) IN
         /\ logTrace' = logTrace \o r.records
         /\ logReturns' = Append(logReturns, r.result)
    /\ logCalls' = Append(logCalls,
                          [op |-> "checkpoint_created", summary |-> summary,
                           contents |-> contents,
                           last_checkpoint_of_epoch |-> last_checkpoint_of_epoch])
    /\ UNCHANGED <<syncVars, consVars>>

\* LogCheckpointOutput.certified_checkpoint_created(summary).
LogCertifiedCheckpointCreated(summary) ==
    /\ Len(logCalls) < MaxLogCalls
    /\ LET r == LogCheckpointOutput_certified_checkpoint_created(summary) IN
         /\ logTrace' = logTrace \o r.records
         /\ logReturns' = Append(logReturns, r.result)
    /\ logCalls' = Append(logCalls, [op |-> "certified_checkpoint_created",
                                     summary |-> summary])
    /\ UNCHANGED <<syncVars, consVars>>

Init == SyncInit /\ ConsInit /\ LogInit

SyncNext ==
    \/ \E p \in Callers, c \in CertifiedCheckpointSummary : Invoke(p, c)
    \/ \E p \in Callers : LogInfo(p)
    \/ \E p \in Callers : SendPoll(p)
    \/ \E p \in Callers : SendResume(p)
    \/ DropSender
    \/ Start
    \/ DropTask
    \/ Recv
    \/ SendCheckpointReturn
    \/ RecvNone

ConsensusNext ==
    \/ \E summary \in CheckpointSummary, contents \in CheckpointContents, flag \in BOOLEAN :
           CheckpointCreated(summary, contents, flag)
    \/ LogDelegate
    \/ SubmitBegin
    \/ \E r \in SuiResult : SubmitReturn(r)

LogNext ==
    \/ \E summary \in CheckpointSummary, contents \in CheckpointContents, flag \in BOOLEAN :
           LogCheckpointCreated(summary, contents, flag)
    \/ \E summary \in CertifiedCheckpointSummary : LogCertifiedCheckpointCreated(summary)

Next == SyncNext \/ ConsensusNext \/ LogNext

\* The whole layer.
Spec == Init /\ [][Next]_vars

\* The state-sync forwarding pair on its own.  The sinks share no state, so
\* the configuration of the consensus sink is fixed here.
SyncSpecInit == Init /\ authority = "V1" /\ signer = "K1"

SyncSpec == SyncSpecInit /\ [][SyncNext]_vars

\* The logging sink on its own.
LogSpecInit == Init /\ authority = "V1" /\ signer = "K1"

LogSpec == LogSpecInit /\ [][LogNext]_vars

\* The consensus submission sink on its own.
ConsensusSpec == Init /\ [][ConsensusNext]_vars

\* Fairness the executor provides: a call that can be polled is polled, and
\* the spawned forwarding loop is polled whenever recv can complete.  Nothing
\* is assumed of the environment (Start, DropTask, DropSender, Invoke) nor of
\* the state-sync ingestion capability (SendCheckpointReturn).
Fairness ==
    /\ \A p \in Callers : WF_vars(LogInfo(p))
    /\ \A p \in Callers : WF_vars(SendPoll(p))
    /\ \A p \in Callers : WF_vars(SendResume(p))
    /\ WF_vars(Recv)
    /\ WF_vars(RecvNone)

FairSpec == SyncSpec /\ Fairness

\* In addition, every send_checkpoint call completes.
LiveSpec == FairSpec /\ WF_vars(SendCheckpointReturn)

\* ------------------------------------------------------------ properties
Range(f) == {f[i] : i \in DOMAIN f}

\* Wrapping of a sequence of certificates, in order.
WrapAll(certs) == [i \in 1..Len(certs) |-> new_unchecked(certs[i])]

\* The arguments of the send_checkpoint invocations made so far, in order.
Checkpoints(invocations) == [i \in 1..Len(invocations) |-> invocations[i].checkpoint]

\* The calls whose certificates were handed to send_checkpoint, in order.
IngestedCalls == [i \in 1..Len(ingested) |-> ingested[i].call]

\* How many send_checkpoint invocations stem from call k.
Deliveries(k) == Cardinality({i \in 1..Len(ingested) : ingested[i].call = k})

\* Call k has returned.
Returned(k) == returns[k] # NoReturn

\* Caller p is executing a call.
InCall(p) == pc[p] # "idle"

\* C1: when calls are made one after the other with certificates c1..cN, the
\* forwarding task has been started and every send_checkpoint call completes,
\* send_checkpoint ends up invoked exactly N times, with
\* new_unchecked(c1), ..., new_unchecked(cN) in that order.
C1_InOrderDelivery ==
    <>[](TaskStarted /\ ~overlap => Checkpoints(ingested) = WrapAll(passed))

C1_Witness ==
    /\ TaskStarted
    /\ ~overlap
    /\ Len(passed) >= 3
    /\ passed[1] # passed[2]
    /\ \A p \in Callers : ~InCall(p)
    /\ Checkpoints(ingested) = WrapAll(passed)

\* C2: a send polled while the buffer holds Capacity messages and the receiver
\* exists suspends without enqueuing or returning; a suspended send leaves the
\* wait only when the task took a message (it is handed the permit, and then
\* enqueues its certificate and returns Ok) or when the receiver was dropped
\* (it returns Ok without enqueuing).
C2_Backpressure ==
    [][\A p \in Callers :
        /\ (pc[p] = "send" /\ Len(buffer) = Capacity /\ ~ReceiverDropped /\ pc'[p] # "send")
             => /\ pc'[p] = "waiting"
                /\ sent' = sent /\ buffer' = buffer
                /\ ~Returned(callId[p])'
        /\ (pc[p] \in {"waiting", "granted"})
             => (callId[p] \notin Range(sent) /\ ~Returned(callId[p]))
        /\ (pc[p] = "waiting" /\ pc'[p] # "waiting")
             => \/ /\ pc'[p] = "granted"
                   /\ buffer' = Tail(buffer)
                   /\ Len(ingested') = Len(ingested) + 1
                \/ /\ pc'[p] = "idle"
                   /\ ReceiverDropped
                   /\ returns'[callId[p]].result = "Ok"
                   /\ sent' = sent /\ buffer' = buffer
        /\ (pc[p] = "granted" /\ pc'[p] # "granted")
             => /\ pc'[p] = "idle"
                /\ returns'[callId[p]].result = "Ok"
                /\ sent' = Append(sent, callId[p])
                /\ buffer' = Append(buffer, [call |-> callId[p], cert |-> passed[callId[p]]])
    ]_vars

C2_Witness ==
    \E k \in CallIds :
        /\ Returned(k)
        /\ returns[k].suspended
        /\ returns[k].result = "Ok"
        /\ k \in Range(sent)
        /\ Len(buffer) = Capacity

\* C3: certified_checkpoint_created never returns an error; a call whose send
\* failed because the receiver is gone has logged the info record and then
\* the error record, its certificate is never enqueued and never handed to
\* send_checkpoint.
C3_NeverFails ==
    /\ \A k \in CallIds : Returned(k) =>
        /\ k <= Len(passed)
        /\ returns[k].result = "Ok"
        /\ returns[k].sendRes \in {"Ok", "Closed"}
        /\ returns[k].sendRes = "Closed"
             => /\ returns[k].log = << CertifiedInfoRecord(passed[k]),
                                       SendErrorRecord("channel closed") >>
                /\ k \notin Range(sent)
                /\ Deliveries(k) = 0
                /\ \A i \in 1..Len(buffer) : buffer[i].call # k
        /\ returns[k].sendRes = "Ok"
             => /\ returns[k].log = << CertifiedInfoRecord(passed[k]) >>
                /\ k \in Range(sent)

C3_Witness ==
    \E k \in CallIds :
        /\ Returned(k)
        /\ returns[k].sendRes = "Closed"
        /\ returns[k].result = "Ok"
        /\ returns[k].suspended
        /\ task = "dropped"
        /\ Len(sent) = Capacity

\* C4 as stated: every call returns, whether or not the task is started and
\* whether or not send_checkpoint completes.
C4_AlwaysReturns ==
    \A p \in Callers : InCall(p) ~> ~InCall(p)

\* The call is held back by backpressure: the buffer is full, the receiver
\* exists, and the task is not started or is inside a send_checkpoint call.
HeldBack(p) ==
    /\ pc[p] = "waiting"
    /\ ~ReceiverDropped
    /\ Len(buffer) = Capacity
    /\ task \in {"created", "delivering"}

\* C4, amended: every call that returns returns Ok, and every call returns
\* unless, from some point on, it is held back for good: the buffer stays
\* full while the task is never started or a send_checkpoint call never
\* completes.
C4_ReturnsUnlessHeldBack ==
    /\ [](\A k \in CallIds : Returned(k) => returns[k].result = "Ok")
    /\ [](\A p \in Callers : InCall(p) <=> (callId[p] # 0 /\ ~Returned(callId[p])))
    /\ \A p \in Callers : []<>(~InCall(p)) \/ <>[]HeldBack(p)

C4_Witness ==
    /\ \E k \in CallIds : Returned(k) /\ returns[k].result = "Ok"
    /\ \E q \in Callers : HeldBack(q) /\ task = "created"

\* C5: once the sender is dropped, a started task hands every certificate
\* still buffered to send_checkpoint, in order, and then ends its loop; when
\* the loop has ended every enqueued certificate was delivered, and no
\* send_checkpoint call is made afterwards.
C5_DrainThenTerminate ==
    /\ (~senderAlive /\ TaskStarted) ~> (task = "done")
    /\ [](task = "done" =>
            /\ IngestedCalls = sent
            /\ Len(atClose) <= Len(ingested)
            /\ SubSeq(IngestedCalls, Len(ingested) - Len(atClose) + 1, Len(ingested)) = atClose)
    /\ [][task = "done" => (task' = "done" /\ ingested' = ingested)]_vars

C5_Witness ==
    /\ task = "done"
    /\ Len(atClose) = Capacity
    /\ Len(ingested) > Len(atClose)

\* C9: a send polled while the task object exists unstarted and the buffer
\* has room enqueues and returns Ok without suspending; each certificate
\* buffered when the task is started is eventually handed to send_checkpoint,
\* and never more than once.
C9_EnqueuedBeforeStart ==
    /\ [][\A p \in Callers :
            (pc[p] = "send" /\ task = "created" /\ Len(buffer) < Capacity /\ pc'[p] # "send")
              => /\ pc'[p] = "idle"
                 /\ ~returns'[callId[p]].suspended
                 /\ returns'[callId[p]].result = "Ok"
                 /\ buffer' = Append(buffer, [call |-> callId[p], cert |-> passed[callId[p]]])
       ]_vars
    /\ (preStart # {}) ~> (\A k \in preStart : Deliveries(k) = 1)
    /\ [](\A k \in preStart : Deliveries(k) <= 1)
    /\ [](\A i \in 1..Len(ingested) :
             ingested[i].checkpoint = new_unchecked(passed[ingested[i].call]))

C9_Witness ==
    /\ Cardinality(preStart) = Capacity
    /\ \A k \in preStart : Deliveries(k) = 1
    /\ task = "recv"

\* C10: the queue is Open exactly while the sender exists; once Closed it
\* stays Closed and no certificate is enqueued.
C10_OpenClosed ==
    /\ [](queueState \in {"Open", "Closed"} /\ (queueState = "Open" <=> senderAlive))
    /\ [][queueState = "Closed" =>
            /\ queueState' = "Closed"
            /\ sent' = sent
            /\ Len(buffer') <= Len(buffer)]_vars

C10_Witness ==
    /\ queueState = "Closed"
    /\ Len(sent) >= 2
    /\ Len(buffer) = 1
    /\ task = "delivering"

\* The two records LogCheckpointOutput emits for the call in progress.
ExpectedRecords ==
    << TransactionsDebugRecord(cargs.summary, cargs.contents),
       CreatingInfoRecord(cargs.summary, cargs.contents, cargs.last_checkpoint_of_epoch) >>

IsSubmitEvent(e) == e.event = "submit_to_consensus"

\* The records at the head of the call's trace.
LeadingRecords == SubSeq(ctrace, 1, IF Len(ctrace) < 2 THEN Len(ctrace) ELSE 2)

ConsReturned == cpc = "idle" /\ Len(ccalls) > 0

\* C6: in every checkpoint_created call of the consensus sink, the two log
\* records of the checkpoint precede the submit_to_consensus invocation, and
\* they are present when the call has returned, whatever the submission
\* returned.
C6_LogBeforeSubmit ==
    /\ \A i \in 1..Len(ctrace) :
          IsSubmitEvent(ctrace[i]) => (i = 3 /\ LeadingRecords = ExpectedRecords)
    /\ cpc \in {"submit", "submitting"} => LeadingRecords = ExpectedRecords
    /\ ConsReturned => LeadingRecords = ExpectedRecords

C6_Witness ==
    /\ ConsReturned
    /\ cresult \in SuiErrors
    /\ Len(ctrace) = 3
    /\ IsSubmitEvent(ctrace[3])
    /\ Len(outcomes) = 2
    /\ outcomes[1].result = "Ok"

\* The summary embedded in a submitted transaction.
EmbeddedSummary(transaction) == transaction.kind.payload[1].summary.summary

\* C7: each call makes at most one submit_to_consensus invocation and returns
\* exactly what that invocation returned; a failed submission is not retried,
\* and every invocation carries the summary of the call that made it.
C7_SingleAttemptVerbatim ==
    /\ Len(submitted) <= Len(ccalls)
    /\ Len(outcomes) <= Len(submitted)
    /\ \A i, j \in 1..Len(submitted) : i < j => submitted[i].call < submitted[j].call
    /\ \A i \in 1..Len(submitted) :
          EmbeddedSummary(submitted[i].transaction) = ccalls[submitted[i].call].summary
    /\ Cardinality({i \in 1..Len(ctrace) : IsSubmitEvent(ctrace[i])}) <= 1
    /\ ConsReturned =>
          /\ Len(outcomes) = Len(ccalls)
          /\ outcomes[Len(outcomes)].call = Len(ccalls)
          /\ cresult = outcomes[Len(outcomes)].result
    /\ ~ConsReturned => cresult = "none"

C7_Witness ==
    /\ ConsReturned
    /\ Len(ccalls) = 2
    /\ ccalls[1].summary # ccalls[2].summary
    /\ outcomes[1].result = "ErrA"
    /\ cresult = "ErrB"
    /\ Len(submitted) = 2

\* C8: every transaction handed to submit_to_consensus is a checkpoint
\* signature message with exactly one SignedCheckpointSummary, whose summary
\* is the summary of the call and whose identity is the sink's authority.
C8_SignedPayload ==
    \A i \in 1..Len(submitted) :
        LET kind == submitted[i].transaction.kind IN
        /\ kind.variant = "CheckpointSignature"
        /\ Len(kind.payload) = 1
        /\ kind.payload[1].summary.summary = ccalls[submitted[i].call].summary
        /\ kind.payload[1].summary.auth_signature.authority = authority

C8_Witness ==
    /\ Len(submitted) = 2
    /\ authority = "V2"
    /\ EmbeddedSummary(submitted[1].transaction) # EmbeddedSummary(submitted[2].transaction)

\* C11: the loop of a started task ends only by recv yielding None: the step
\* to "done" is taken from "recv" with the sender dropped and the buffer
\* empty; while the sender exists or a certificate is buffered the task is
\* not "done".
C11_OnlyClosureTerminates ==
    /\ [][(task # "done" /\ task' = "done") =>
            /\ task = "recv"
            /\ ~senderAlive /\ queueState = "Closed"
            /\ buffer = <<>>
            /\ \A p \in Callers : ~InCall(p)]_vars
    /\ []((TaskStarted /\ (senderAlive \/ buffer # <<>>)) => task # "done")

C11_Witness ==
    /\ task = "done"
    /\ Len(ingested) >= 2
    /\ atClose # <<>>

IsPrefix(s, t) == Len(s) <= Len(t) /\ SubSeq(t, 1, Len(s)) = s

Occurrences(k, calls) == Cardinality({i \in 1..Len(calls) : calls[i] = k})

\* The call invoked by this step, 0 if the step invokes none.
Invoked == IF Len(passed') = Len(passed) + 1 THEN Len(passed') ELSE 0

\* C12: with concurrent callers, a call whose send succeeded is enqueued
\* exactly once and delivered at most once, and deliveries follow the single
\* enqueue order.  That order respects real time: when a call is invoked,
\* every call that already returned with its certificate enqueued has its
\* place in the order, the new call has none yet, and the order only grows
\* at its end.
C12_LinearizableOrder ==
    /\ [](\A k \in CallIds :
            /\ Occurrences(k, sent) <= 1
            /\ Deliveries(k) <= Occurrences(k, sent)
            /\ (Returned(k) /\ returns[k].sendRes = "Ok") => Occurrences(k, sent) = 1)
    /\ [](IsPrefix(IngestedCalls, sent))
    /\ [][Invoked # 0 =>
            /\ Invoked \notin Range(sent)
            /\ \A a \in CallIds :
                 (Returned(a) /\ returns[a].sendRes = "Ok") => a \in Range(sent)]_vars
    /\ [][IsPrefix(sent, sent') /\ Len(sent') <= Len(sent) + 1]_vars

C12_Witness ==
    /\ overlap
    /\ Len(ingested) = 3
    /\ IngestedCalls # <<1, 2, 3>>
    /\ \A k \in 1..3 : Returned(k)

\* The certificates successfully enqueued so far, in enqueue order.
EnqueuedCerts == [i \in 1..Len(sent) |-> passed[sent[i]]]

\* C13: the ingestion calls made so far are a prefix of the certificates
\* enqueued so far, certificate by certificate and call by call: nothing is
\* reordered, skipped, invented or deduplicated, and what is not yet delivered
\* of the enqueue order is exactly what the buffer holds.
C13_PrefixOfEnqueued ==
    /\ IsPrefix(Checkpoints(ingested), WrapAll(EnqueuedCerts))
    /\ IsPrefix(IngestedCalls, sent)
    /\ ~ReceiverDropped =>
         [i \in 1..Len(buffer) |-> buffer[i].call]
            = SubSeq(sent, Len(ingested) + 1, Len(sent))

C13_Witness ==
    /\ Len(ingested) = 3
    /\ passed[1] = passed[2]
    /\ passed[3] # passed[1]
    /\ ingested[1].checkpoint = ingested[2].checkpoint
    /\ IngestedCalls # <<1, 2, 3>>

\* The records the last step added to the logging sink's output.
NewLogRecords == SubSeq(logTrace', Len(logTrace) + 1, Len(logTrace'))

\* C14: the logging sink never fails and keeps no state.  Every call returns
\* Ok; checkpoint_created adds exactly two records, the transaction list at
\* debug level and then the summary-level info record, both carrying the
\* checkpoint's sequence number; certified_checkpoint_created adds exactly
\* one info record; neither changes the queue, the forwarding task or the
\* consensus sink, and nothing is submitted.
C14_LogSinkNeverFails ==
    /\ [](/\ Len(logReturns) = Len(logCalls)
          /\ \A i \in 1..Len(logReturns) : logReturns[i] = "Ok")
    /\ [][Len(logCalls') = Len(logCalls) + 1 =>
            LET c == logCalls'[Len(logCalls')] IN
            /\ IsPrefix(logTrace, logTrace')
            /\ logReturns' = Append(logReturns, "Ok")
            /\ c.op = "checkpoint_created" =>
                 /\ Len(NewLogRecords) = 2
                 /\ NewLogRecords[1].level = "debug"
                 /\ NewLogRecords[1].contents = c.contents
                 /\ NewLogRecords[1].sequence_number = c.summary.sequence_number
                 /\ NewLogRecords[2].level = "info"
                 /\ NewLogRecords[2].sequence_number = c.summary.sequence_number
                 /\ NewLogRecords[2].transactions_count = Len(c.contents)
                 /\ NewLogRecords[2].last_checkpoint_of_epoch = c.last_checkpoint_of_epoch
            /\ c.op = "certified_checkpoint_created" =>
                 /\ Len(NewLogRecords) = 1
                 /\ NewLogRecords[1].level = "info"
                 /\ NewLogRecords[1].sequence_number = c.summary.summary.sequence_number
            /\ buffer' = buffer /\ sent' = sent /\ waiters' = waiters
            /\ submitted' = submitted
            /\ syncVars' = syncVars /\ consVars' = consVars]_vars

C14_Witness ==
    /\ Len(logCalls) = 2
    /\ logCalls[1].op = "checkpoint_created"
    /\ logCalls[1].summary.sequence_number = 7
    /\ Len(logCalls[1].contents) = 3
    /\ ~logCalls[1].last_checkpoint_of_epoch
    /\ logCalls[2].op = "certified_checkpoint_created"
    /\ Len(logTrace) = 3
    /\ logReturns = <<"Ok", "Ok">>

\* C15: the consensus sink has no timeout of its own.  While the call waits
\* for submit_to_consensus its two log records are already emitted and it has
\* no result; a step in which the capability does not complete leaves the
\* call waiting, and the call returns only in the step in which the
\* capability completes, with that completion's result.
C15_NoInternalTimeout ==
    /\ [](cpc = "submitting" =>
            /\ cresult = "none"
            /\ Len(ctrace) = 3
            /\ LeadingRecords = ExpectedRecords
            /\ Len(submitted) = Len(ccalls)
            /\ Len(outcomes) = Len(ccalls) - 1)
    /\ [][(cpc = "submitting" /\ outcomes' = outcomes) =>
            /\ cpc' = "submitting"
            /\ cresult' = "none"
            /\ ctrace' = ctrace
            /\ ccalls' = ccalls]_vars
    /\ [][(cpc = "submitting" /\ cpc' # "submitting") =>
            /\ Len(outcomes') = Len(outcomes) + 1
            /\ outcomes'[Len(outcomes')].call = Len(ccalls)
            /\ cresult' = outcomes'[Len(outcomes')].result]_vars

C15_Witness ==
    /\ cpc = "submitting"
    /\ Len(ccalls) = 2
    /\ Len(outcomes) = 1
    /\ cresult = "none"
    /\ Len(ctrace) = 3
    /\ ctrace[1].level = "debug"
    /\ ctrace[2].level = "info"

\* The call a caller is executing has attempted or is attempting its enqueue.
AtSend(p) == pc[p] \in {"send", "waiting", "granted"}

\* C16: certified_checkpoint_created of the state-sync sink emits the
\* certified-checkpoint info record, with the sequence number and digest the
\* logging sink records for the same certificate, before it attempts the
\* enqueue: a call at or suspended in its send has emitted exactly that
\* record and is not yet enqueued, a call that has not emitted it has not
\* reached the send, and a returned call has it first in its log, followed
\* by the error record exactly when the enqueue failed.
C16_InfoBeforeEnqueue ==
    \A p \in Callers :
        /\ pc[p] = "info" =>
             /\ callLog[p] = <<>>
             /\ callId[p] \notin Range(sent)
             /\ ~suspended[p]
        /\ AtSend(p) =>
             /\ callLog[p] = << LogCertifiedInfoRecord(Arg(p)) >>
             /\ callId[p] \notin Range(sent)
        /\ \A k \in CallIds : Returned(k) =>
             /\ Len(returns[k].log) >= 1
             /\ returns[k].log[1] = LogCertifiedInfoRecord(passed[k])
             /\ returns[k].sendRes = "Ok" => Len(returns[k].log) = 1
             /\ returns[k].sendRes # "Ok" =>
                  /\ Len(returns[k].log) = 2
                  /\ returns[k].log[2].level = "error"

C16_Witness ==
    /\ \E p \in Callers :
         /\ pc[p] = "waiting"
         /\ ReceiverDropped
         /\ callLog[p] = << LogCertifiedInfoRecord(Arg(p)) >>
    /\ Len(sent) = Capacity

\* Certificates the sender accepted whose send_checkpoint call has not completed.
InFlight == Len(sent) - completed

Delivering == IF task = "delivering" THEN 1 ELSE 0

\* C17: the channel never buffers more than its capacity, permits handed to
\* woken senders included, and the certificates accepted but not yet fully
\* ingested are at most the capacity plus the one being delivered; while the
\* receiver exists they are exactly the buffered ones and the one being
\* delivered.
C17_BoundedInFlight ==
    /\ Len(buffer) <= Capacity
    /\ Len(buffer) + GrantedPermits <= Capacity
    /\ InFlight <= Capacity + 1
    /\ ~ReceiverDropped => InFlight = Len(buffer) + Delivering

C17_Witness ==
    /\ Len(buffer) = Capacity
    /\ task = "delivering"
    /\ InFlight = Capacity + 1
    /\ \A p \in Callers : ~InCall(p)

\* C18: the forwarding task delivers one certificate at a time.  At most one
\* send_checkpoint call is in progress; a certificate is taken from the
\* channel only when every earlier send_checkpoint call has completed; and
\* in a step in which the call in progress does not complete nothing is
\* taken from the channel and nothing is delivered.
C18_OneAtATime ==
    /\ [](Len(ingested) - completed = Delivering)
    /\ [][Len(ingested') # Len(ingested) =>
            /\ completed = Len(ingested)
            /\ ingested' = Append(ingested, ingested'[Len(ingested')])
            /\ buffer # <<>> /\ buffer' = Tail(buffer)]_vars
    /\ [][(task = "delivering" /\ completed' = completed) =>
            /\ task' = "delivering"
            /\ ingested' = ingested
            /\ IsPrefix(buffer, buffer')]_vars

C18_Witness ==
    /\ task = "delivering"
    /\ completed = 1
    /\ Len(ingested) = 2
    /\ Len(buffer) = 1
    /\ \E p \in Callers : pc[p] = "idle" /\ Len(passed) = 3

\* The submit_to_consensus invocations made by call k.
SubmissionsOf(k) == {i \in 1..Len(submitted) : submitted[i].call = k}

====
